---- MODULE Spec2Model ----
(***************************************************************************)
(* A model of the `Pipe` trait of pipe-trait (src/src/lib.rs) together     *)
(* with the caller's side of a call: one binding `x`, the temporary `acc`  *)
(* that a chained expression passes from one call to the next, the         *)
(* caller-supplied operation `f`, and the conversions (AsRef, AsMut,       *)
(* Deref, DerefMut, Borrow, BorrowMut) the value's type provides.          *)
(*                                                                         *)
(* A call is evaluated on a machine record m = [x, log]: m.x is the        *)
(* caller's binding as calls see it, m.log the conversions and the         *)
(* invocations of f that happened, in order (what a counting f and a       *)
(* counting conversion would observe).  Every evaluation step returns      *)
(* [m, out] with out = [k |-> "ret", v |-> value] or                       *)
(* [k |-> "panic", payload |-> p].                                         *)
(***************************************************************************)
EXTENDS Integers, Sequences, FiniteSets, TLC

VARIABLES
    x,          \* the caller's binding: its value, or Moved
    acc,        \* what the last call returned (the temporary a chain goes on from)
    last,       \* the last call: its receiver's value before it, its log, its outcome
    chain,      \* the chained expression so far: the value it started from, its calls
    base,       \* the value x was bound to
    nmut,       \* mutable calls made on x so far
    expected    \* an equal starting value, taken through the same calls written directly

vars == <<x, acc, last, chain, base, nmut, expected>>

----------------------------------------------------------------------------
(* Bounds *)

\* i32 inputs range over 0 .. MaxVal
MaxVal == 2
\* length of the longest vector the caller builds
MaxLen == 2
\* calls in one chained expression  x.pipe(f).pipe(g).pipe(h)
MaxChain == 3
\* mutable calls the caller makes on one value
MaxEdits == 2

Vals == 0 .. MaxVal

----------------------------------------------------------------------------
(* Values.  ty is the Rust type, d the fields / elements.                  *)

I32(n) == [ty |-> "i32", d |-> <<n>>]

Foo(a, b) == [ty |-> "Foo", d |-> <<a, b>>]

Vec(buf) == [ty |-> "Vec", d |-> buf, cap |-> Len(buf)]

\* a user type whose conversions to [i32] panic (a lazily initialised
\* buffer whose initialiser panics)
Lazy == [ty |-> "Lazy", d |-> <<>>]

Unit == [ty |-> "unit", d |-> <<>>]

\* the binding after its value was moved out
Moved == [ty |-> "moved", d |-> <<>>]

\* acc when the last call unwound: there is no value
NoValue == [ty |-> "none", d |-> <<>>]

\* vec![0, 1, ..]: one vector of each length
Bufs == {[i \in 1 .. n |-> (i - 1) % (MaxVal + 1)] : n \in 1 .. MaxLen}

\* the values the caller binds to x
Inputs ==
    {I32(n) : n \in Vals}
        \cup {Foo(a, b) : a \in Vals, b \in Vals}
        \cup {Vec(b) : b \in Bufs}
        \cup {Lazy}

\* i32 is Copy; the structs, Vec and Lazy are not
IsCopy(v) == v.ty = "i32"

\* x after `self` was passed by value: a Copy value stays, any other is moved
MoveOut(v) == IF IsCopy(v) THEN v ELSE Moved

----------------------------------------------------------------------------
(* Borrowed views.  A view names the place it borrows from and the type it *)
(* is a view of: the whole value, or the [i32] inside a Vec / Lazy.        *)

Ref(part, mut) == [place |-> "x", part |-> part, mut |-> mut]

IsRef(a) == "place" \in DOMAIN a

\* what a view shows: the value itself, or its elements as a slice
\* (a slice has no capacity and is not a Vec)
Read(r, m) ==
    IF r.part = "whole" THEN m.x ELSE [ty |-> "slice", d |-> m.x.d]

\* what the argument denotes: the owned value, or what the view shows
ArgVal(a, m) == IF IsRef(a) THEN Read(a, m) ELSE a

\* writing d through a mutable view: a view of x writes the caller's value
Store(m, r, d) == IF r.place = "x" THEN [m EXCEPT !.x.d = d] ELSE m

\* an assignment to one field or element through a mutable view
Poke(m, r, i, v) == Store(m, r, [Read(r, m).d EXCEPT ![i] = v])

Ret(m, v) == [m |-> m, out |-> [k |-> "ret", v |-> v]]

Panic(m, p) == [m |-> m, out |-> [k |-> "panic", payload |-> p]]

----------------------------------------------------------------------------
(* The caller-supplied operations.  An operation is a record: its name,    *)
(* the type p behind its parameter, and its own constants.                 *)

\* the positions a `get` / `set` written for type p may name: a field of
\* the struct (a missing field does not compile), or any index into a slice
\* or vector (an index past the end panics when f runs)
Positions(p) ==
    CASE p = "i32" -> {1}
      [] p = "Foo" -> {1, 2}
      [] p \in {"slice", "Vec"} -> 1 .. MaxLen
      [] OTHER -> {}

\* FnOnce(T) -> R
ValNames(p) ==
    CASE p = "i32" -> {"inc", "double", "square", "triple", "id", "fail", "boom"}
      [] p = "tuple" -> {"dup", "id", "fail", "boom"}
      [] OTHER -> {"id", "fail", "boom"}

ValFns(p) == {[name |-> n, p |-> p] : n \in ValNames(p)}

\* FnOnce(&T) -> R that only read (`id` returns the view it was handed)
RefFns(p) ==
    {[name |-> n, p |-> p] : n \in {"noop", "id", "fail", "boom"}}
        \cup {[name |-> "get", p |-> p, i |-> i] : i \in Positions(p)}

\* FnOnce(&mut T) -> R
MutFns(p) ==
    {[name |-> n, p |-> p] : n \in {"noop", "modify", "boom"}}
        \cup {[name |-> "set", p |-> p, i |-> i, v |-> v] :
                 i \in Positions(p), v \in Vals}

\* what `modify` writes: a fixed constant per field
ModifyTo(d) == [i \in DOMAIN d |-> i % (MaxVal + 1)]

\* the body of f, run on argument a (the arithmetic is i32's: within the
\* bounds no result leaves the i32 range, so none overflows)
Body(f, a, m) ==
    LET val == ArgVal(a, m)
        d == val.d
    IN  CASE f.name = "inc" -> Ret(m, I32(d[1] + 1))
          [] f.name = "double" -> Ret(m, I32(d[1] + d[1]))
          [] f.name = "square" -> Ret(m, I32(d[1] * d[1]))
          [] f.name = "triple" -> Ret(m, [ty |-> "tuple", d |-> <<d[1], d[1], d[1]>>])
          [] f.name = "dup" -> Ret(m, [ty |-> "array", d |-> d \o d])
          [] f.name = "id" -> Ret(m, a)
          [] f.name = "fail" -> Ret(m, [ty |-> "Err", d |-> d])
          [] f.name = "noop" -> Ret(m, Unit)
          [] f.name = "boom" -> Panic(m, "f panicked")
          [] f.name = "get" ->
                IF f.i \in DOMAIN d
                    THEN Ret(m, I32(d[f.i]))
                    ELSE Panic(m, "index out of bounds")
          [] f.name = "set" ->
                IF f.i \in DOMAIN d
                    THEN Ret(Poke(m, a, f.i, f.v), Unit)
                    ELSE Panic(m, "index out of bounds")
          [] f.name = "modify" -> Ret(Store(m, a, ModifyTo(d)), a)

\* one invocation of f: the body runs, and the log gains an entry saying
\* what f was handed and how it ended
Call(f, a, m) ==
    LET r == Body(f, a, m)
    IN  [m |-> [r.m EXCEPT !.log =
                    Append(m.log, [ev |-> "f", f |-> f, arg |-> a, out |-> r.out])],
         out |-> r.out]

----------------------------------------------------------------------------
(* The conversions the value's type provides.  T is the type of the value, *)
(* P the type f's parameter is a view of.                                  *)

\* impl AsRef<[T]> for Vec<T>, impl AsRef<Vec<T>> for Vec<T>, and Lazy's own
HasAsRef(T, P) ==
    \/ T = "Vec" /\ P \in {"slice", "Vec"}
    \/ T = "Lazy" /\ P = "slice"

\* impl Deref for Vec<T> { type Target = [T] }, and Lazy's own
HasDeref(T, P) == T \in {"Vec", "Lazy"} /\ P = "slice"

\* impl<T> Borrow<T> for T, impl Borrow<[T]> for Vec<T>, and Lazy's own
HasBorrow(T, P) ==
    \/ P = T
    \/ T \in {"Vec", "Lazy"} /\ P = "slice"

Convert(how, mut, P, m) ==
    LET T == m.x.ty
        r == IF T = "Lazy" /\ P = "slice"
                 THEN Panic(m, "initialiser panicked")
                 ELSE Ret(m, Ref(IF P = T THEN "whole" ELSE "slice", mut))
    IN  [r EXCEPT !.m.log = Append(m.log, [ev |-> "conv", how |-> how, out |-> r.out])]

as_ref(self, P, m) == Convert("as_ref", FALSE, P, m)

as_mut(self, P, m) == Convert("as_mut", TRUE, P, m)

deref(self, P, m) == Convert("deref", FALSE, P, m)

deref_mut(self, P, m) == Convert("deref_mut", TRUE, P, m)

borrow(self, P, m) == Convert("borrow", FALSE, P, m)

borrow_mut(self, P, m) == Convert("borrow_mut", TRUE, P, m)

\* f(c): the argument c is evaluated first; when it panics the call to f
\* is never reached and the panic goes on to the caller
Apply(f, c) == IF c.out.k = "panic" THEN c ELSE Call(f, c.out.v, c.m)

----------------------------------------------------------------------------
(* The trait's nine methods.                                               *)

\* a pipe that hands its receiver back without calling f
pipe_without_call(self, f, m) == Ret(m, self)

pipe(self, f, m) == Call(f, self, m)

\* a pipe_ref that calls f a second time
pipe_ref_twice(self, f, m) == Call(f, self, Call(f, self, m).m)

pipe_ref(self, f, m) == Call(f, self, m)

\* a pipe_mut that lets f edit a copy and drops the copy
pipe_mut_on_copy(self, f, m) ==
    LET r == Call(f, self, m) IN [r EXCEPT !.m.x = m.x]

\* a pipe_mut whose f edits the value but whose result is a view of a clone
pipe_mut_view_of_clone(self, f, m) ==
    LET r == Call(f, self, m)
    IN  IF r.out.k = "ret" /\ IsRef(r.out.v)
            THEN [r EXCEPT !.out.v.place = "clone"]
            ELSE r

pipe_mut(self, f, m) == Call(f, self, m)

\* a pipe_as_ref that passes the receiver itself, unconverted
pipe_as_ref_unconverted(self, f, m) == Call(f, self, m)

pipe_as_ref(self, f, m) == Apply(f, as_ref(self, f.p, m))

\* a pipe_as_mut that converts a copy and lets f edit that
pipe_as_mut_on_copy(self, f, m) ==
    LET r == Apply(f, as_mut(self, f.p, m)) IN [r EXCEPT !.m.x = m.x]

pipe_as_mut(self, f, m) == Apply(f, as_mut(self, f.p, m))

\* a pipe_deref that converts a second time before the call
pipe_deref_twice(self, f, m) ==
    LET c == deref(self, f.p, m)
    IN  IF c.out.k = "panic" THEN c ELSE Apply(f, deref(self, f.p, c.m))

\* f(self) with self: &Self and f: FnOnce(&Param): the deref coercion
pipe_deref(self, f, m) == Apply(f, deref(self, f.p, m))

\* a pipe_deref_mut that hands f a view of a clone of the value
pipe_deref_mut_of_clone(self, f, m) ==
    LET c == deref_mut(self, f.p, m)
    IN  IF c.out.k = "panic"
            THEN c
            ELSE Call(f, [c.out.v EXCEPT !.place = "clone"], c.m)

pipe_deref_mut(self, f, m) == Apply(f, deref_mut(self, f.p, m))

\* a pipe_borrow that takes its receiver by value, so that the value is gone
\* after the call
pipe_borrow_consumes(self, f, m) ==
    LET r == Apply(f, borrow(self, f.p, m)) IN [r EXCEPT !.m.x = Moved]

pipe_borrow(self, f, m) == Apply(f, borrow(self, f.p, m))

\* a pipe_borrow_mut that catches a panic and returns ()
pipe_borrow_mut_catches(self, f, m) ==
    LET r == Apply(f, borrow_mut(self, f.p, m))
    IN  IF r.out.k = "panic" THEN Ret(r.m, Unit) ELSE r

pipe_borrow_mut(self, f, m) == Apply(f, borrow_mut(self, f.p, m))

----------------------------------------------------------------------------
(* The same calls in traditional syntax (the table of the crate's          *)
(* documentation): what the caller would write without the trait.          *)

Manual(op, f, self, m) ==
    CASE op = "pipe" -> Call(f, self, m)
      [] op = "pipe_ref" -> Call(f, self, m)
      [] op = "pipe_mut" -> Call(f, self, m)
      [] op = "pipe_as_ref" -> Apply(f, as_ref(self, f.p, m))
      [] op = "pipe_as_mut" -> Apply(f, as_mut(self, f.p, m))
      [] op = "pipe_deref" -> Apply(f, deref(self, f.p, m))
      [] op = "pipe_deref_mut" -> Apply(f, deref_mut(self, f.p, m))
      [] op = "pipe_borrow" -> Apply(f, borrow(self, f.p, m))
      [] op = "pipe_borrow_mut" -> Apply(f, borrow_mut(self, f.p, m))

\* the value e after f was applied to it directly through a mutable view
DirectEdit(op, f, e) ==
    Manual(op, f, Ref("whole", TRUE), [x |-> e, log |-> <<>>]).m.x

----------------------------------------------------------------------------
(* The caller.                                                             *)

ViewTypes == {"i32", "Foo", "Vec", "Lazy", "slice"}

NoCall == [self |-> NoValue, log |-> <<>>, out |-> [k |-> "none"]]

Start(v) == [x0 |-> v, calls |-> <<>>]

Init ==
    /\ x \in Inputs
    /\ acc = NoValue
    /\ last = NoCall
    /\ chain = Start(x)
    /\ base = x
    /\ nmut = 0
    /\ expected = x

\* the call returned to the caller, or unwound past it
Step(self, r) ==
    /\ x' = r.m.x
    /\ acc' = IF r.out.k = "ret" THEN r.out.v ELSE NoValue
    /\ last' = [self |-> self, log |-> r.m.log, out |-> r.out]

\* a call on the binding x starts a chained expression
OnX(op, f) == chain' = [x0 |-> x, calls |-> <<[op |-> op, f |-> f]>>]

Reads == UNCHANGED <<base, nmut, expected>>

Edits(op, f) ==
    /\ nmut < MaxEdits
    /\ nmut' = nmut + 1
    /\ expected' = DirectEdit(op, f, expected)
    /\ UNCHANGED base

Machine == [x |-> x, log |-> <<>>]

\* x.pipe(f)
Pipe ==
    /\ x # Moved
    /\ \E f \in ValFns(x.ty) :
        /\ Step(x, pipe(x, f, [x |-> MoveOut(x), log |-> <<>>]))
        /\ OnX("pipe", f)
        /\ expected' = MoveOut(expected)
        /\ UNCHANGED <<base, nmut>>

\* <the result of the previous call>.pipe(f)
PipeAcc ==
    /\ acc # NoValue
    /\ Len(chain.calls) < MaxChain
    /\ \E f \in ValFns(IF IsRef(acc) THEN "ref" ELSE acc.ty) :
        /\ Step(acc, pipe(acc, f, Machine))
        /\ chain' = [chain EXCEPT !.calls = Append(@, [op |-> "pipe", f |-> f])]
        /\ Reads

\* x.pipe_ref(f)
PipeRef ==
    /\ x # Moved
    /\ \E f \in RefFns(x.ty) :
        /\ Step(x, pipe_ref(Ref("whole", FALSE), f, Machine))
        /\ OnX("pipe_ref", f)
        /\ Reads

\* x.pipe_mut(f)
PipeMut ==
    /\ x # Moved
    /\ \E f \in MutFns(x.ty) :
        /\ Step(x, pipe_mut(Ref("whole", TRUE), f, Machine))
        /\ OnX("pipe_mut", f)
        /\ Edits("pipe_mut", f)

\* x.pipe_as_ref(f)
PipeAsRef ==
    /\ x # Moved
    /\ \E P \in ViewTypes :
        /\ HasAsRef(x.ty, P)
        /\ \E f \in RefFns(P) :
            /\ Step(x, pipe_as_ref(Ref("whole", FALSE), f, Machine))
            /\ OnX("pipe_as_ref", f)
            /\ Reads

\* x.pipe_as_mut(f)
PipeAsMut ==
    /\ x # Moved
    /\ \E P \in ViewTypes :
        /\ HasAsRef(x.ty, P)
        /\ \E f \in MutFns(P) :
            /\ Step(x, pipe_as_mut(Ref("whole", TRUE), f, Machine))
            /\ OnX("pipe_as_mut", f)
            /\ Edits("pipe_as_mut", f)

\* x.pipe_deref(f)
PipeDeref ==
    /\ x # Moved
    /\ \E P \in ViewTypes :
        /\ HasDeref(x.ty, P)
        /\ \E f \in RefFns(P) :
            /\ Step(x, pipe_deref(Ref("whole", FALSE), f, Machine))
            /\ OnX("pipe_deref", f)
            /\ Reads

\* x.pipe_deref_mut(f)
PipeDerefMut ==
    /\ x # Moved
    /\ \E P \in ViewTypes :
        /\ HasDeref(x.ty, P)
        /\ \E f \in MutFns(P) :
            /\ Step(x, pipe_deref_mut(Ref("whole", TRUE), f, Machine))
            /\ OnX("pipe_deref_mut", f)
            /\ Edits("pipe_deref_mut", f)

\* x.pipe_borrow(f)
PipeBorrow ==
    /\ x # Moved
    /\ \E P \in ViewTypes :
        /\ HasBorrow(x.ty, P)
        /\ \E f \in RefFns(P) :
            /\ Step(x, pipe_borrow(Ref("whole", FALSE), f, Machine))
            /\ OnX("pipe_borrow", f)
            /\ Reads

\* x.pipe_borrow_mut(f)
PipeBorrowMut ==
    /\ x # Moved
    /\ \E P \in ViewTypes :
        /\ HasBorrow(x.ty, P)
        /\ \E f \in MutFns(P) :
            /\ Step(x, pipe_borrow_mut(Ref("whole", TRUE), f, Machine))
            /\ OnX("pipe_borrow_mut", f)
            /\ Edits("pipe_borrow_mut", f)

\* single calls on the binding, in any order
Next ==
    \/ Pipe
    \/ PipeRef
    \/ PipeMut
    \/ PipeAsRef
    \/ PipeAsMut
    \/ PipeDeref
    \/ PipeDerefMut
    \/ PipeBorrow
    \/ PipeBorrowMut

Spec == Init /\ [][Next]_vars

\* chained expressions  x.pipe(f).pipe(g).pipe(h)
NextChain ==
    \/ Pipe
    \/ PipeAcc

SpecChain == Init /\ [][NextChain]_vars

----------------------------------------------------------------------------
(* Reading the state.                                                      *)

Called == chain.calls # <<>>

LastCall == chain.calls[Len(chain.calls)]

LastOp == IF Called THEN LastCall.op ELSE "none"

LastF == LastCall.f

\* the invocations of f, and the conversions, of a log
Fs(log) == SelectSeq(log, LAMBDA e : e.ev = "f")

Convs(log) == SelectSeq(log, LAMBDA e : e.ev = "conv")

Fresh(v) == [x |-> v, log |-> <<>>]

ByMutOps == {"pipe_mut", "pipe_as_mut", "pipe_deref_mut", "pipe_borrow_mut"}

ConvOps ==
    {"pipe_as_ref", "pipe_as_mut", "pipe_deref", "pipe_deref_mut",
     "pipe_borrow", "pipe_borrow_mut"}

\* the conversion each variant is documented to use
ConvOf(op) ==
    CASE op = "pipe_as_ref" -> "as_ref"
      [] op = "pipe_as_mut" -> "as_mut"
      [] op = "pipe_deref" -> "deref"
      [] op = "pipe_deref_mut" -> "deref_mut"
      [] op = "pipe_borrow" -> "borrow"
      [] op = "pipe_borrow_mut" -> "borrow_mut"
      [] OTHER -> "none"

\* the last call on x, written in traditional syntax on the value x had
ManualLast ==
    IF LastOp = "pipe"
        THEN Manual("pipe", LastF, last.self, Fresh(MoveOut(last.self)))
        ELSE Manual(LastOp, LastF, Ref("whole", LastOp \in ByMutOps), Fresh(last.self))

\* f(v) for an owned v
Direct(f, v) == Body(f, v, Fresh(Moved)).out

\* h(g(f(v))) for calls = << f, g, h >>; a panic inside ends the evaluation
RECURSIVE Nested(_, _)
Nested(v, calls) ==
    IF calls = <<>>
        THEN [k |-> "ret", v |-> v]
        ELSE LET inner == Nested(v, SubSeq(calls, 1, Len(calls) - 1))
             IN  IF inner.k = "panic"
                     THEN inner
                     ELSE Direct(calls[Len(calls)].f, inner.v)

----------------------------------------------------------------------------
(* C1 *)

\* C1: x.pipe(f) returns exactly f(x), whatever type f returns, and the
\* chain x.pipe(f).pipe(g).pipe(h) ends as h(g(f(x))) does: the result of a
\* chained expression is the nested direct application of its operations,
\* in the order written, to the value it started from.
C1_ChainIsNestedApplication ==
    Called =>
        /\ \A i \in 1 .. Len(chain.calls) : chain.calls[i].op = "pipe"
        /\ last.out = Nested(chain.x0, chain.calls)
        /\ last.out.k = "ret" => acc = Nested(chain.x0, chain.calls).v

\* 2.pipe(inc).pipe(double).pipe(square) has returned square(double(inc(2)))
C1_Witness ==
    /\ Len(chain.calls) = MaxChain
    /\ chain.x0 = I32(2)
    /\ [i \in 1 .. Len(chain.calls) |-> chain.calls[i].f.name]
           = <<"inc", "double", "square">>
    /\ acc = I32(((2 + 1) + (2 + 1)) * ((2 + 1) + (2 + 1)))

----------------------------------------------------------------------------
(* C2 *)

\* C2 as stated: every call of every one of the nine methods invokes f
\* exactly once.
C2_ExactlyOnceAlways == Called => Len(Fs(last.log)) = 1

\* C2, amended: a call invokes f exactly once, and f's end is the last thing
\* that happens in the call, whose outcome is f's -- unless the conversion
\* of a conversion variant panicked, and then f is not invoked at all.
\* f is never invoked more than once.
C2_OnceUnlessConversionPanics ==
    Called =>
        LET n == Len(last.log)
            convPanicked ==
                \E i \in 1 .. n :
                    last.log[i].ev = "conv" /\ last.log[i].out.k = "panic"
        IN  /\ Len(Fs(last.log)) = (IF convPanicked THEN 0 ELSE 1)
            /\ ~convPanicked =>
                  /\ last.log[n].ev = "f"
                  /\ last.log[n].f = LastF
                  /\ last.out = last.log[n].out

\* a vector's pipe_as_ref returned after one conversion and one call of f
C2_Witness ==
    /\ LastOp = "pipe_as_ref"
    /\ last.self.ty = "Vec"
    /\ last.out.k = "ret"
    /\ Len(last.log) = 2
    /\ Len(Fs(last.log)) = 1

----------------------------------------------------------------------------
(* C3 *)

\* C3: after x.pipe_ref(f) or x.pipe_borrow(f) with an f that only reads,
\* the caller still holds x and x equals its value before the call, and
\* pipe_ref returned f(&x) (a `get` returned the field it read).
C3_BorrowLeavesValue ==
    LastOp \in {"pipe_ref", "pipe_borrow"} =>
        /\ x # Moved
        /\ x = last.self
        /\ LastOp = "pipe_ref" =>
              /\ last.out = Body(LastF, Ref("whole", FALSE), Fresh(last.self)).out
              /\ LastF.name = "get" /\ LastF.i \in DOMAIN last.self.d =>
                    acc = I32(last.self.d[LastF.i])

\* Foo(1, 2).pipe_ref(|a| a.0) returned 1 and the value is still Foo(1, 2)
C3_Witness ==
    /\ LastOp = "pipe_ref"
    /\ last.self = Foo(1, 2)
    /\ LastF.name = "get"
    /\ LastF.i = 1
    /\ acc = I32(1)
    /\ x = Foo(1, 2)

----------------------------------------------------------------------------
(* C4 *)

\* C4: after x.pipe_mut(f), x is in the state f(&mut x) leaves it in, and
\* over a sequence of mutable calls on the same value x equals an equal
\* starting value taken through the same edits made directly, in order.
C4_PipeMutEditsInPlace ==
    LastOp = "pipe_mut" =>
        /\ x = Body(LastF, Ref("whole", TRUE), Fresh(last.self)).m.x
        /\ x = expected
        /\ LastF.name = "set" /\ LastF.i \in DOMAIN last.self.d =>
              x = [last.self EXCEPT !.d[LastF.i] = LastF.v]

\* Foo(0, 0) after a first edit and then pipe_mut(|a| a.1 = 2) is Foo(1, 2)
C4_Witness ==
    /\ LastOp = "pipe_mut"
    /\ base = Foo(0, 0)
    /\ nmut = 2
    /\ last.self = Foo(1, 0)
    /\ LastF.name = "set"
    /\ x = Foo(1, 2)

----------------------------------------------------------------------------
(* C5 *)

----------------------------------------------------------------------------
(* C6 *)

\* C6: after x.pipe_as_mut(f), x.pipe_deref_mut(f) or x.pipe_borrow_mut(f),
\* x shows exactly the edits f made through the converted view: an f that
\* sets element i to v leaves x with element i equal to v and every other
\* element, the length, the capacity and the type as they were; an f that
\* edits nothing (or a call that panics before an edit) leaves x as it was.
C6_ConvertedEditsInPlace ==
    LastOp \in {"pipe_as_mut", "pipe_deref_mut", "pipe_borrow_mut"} =>
        /\ x = expected
        /\ x.ty = last.self.ty
        /\ DOMAIN x = DOMAIN last.self
        /\ DOMAIN x.d = DOMAIN last.self.d
        /\ "cap" \in DOMAIN x => x.cap = last.self.cap
        /\ LastF.name = "set" /\ LastF.i \in DOMAIN last.self.d =>
              /\ x.d[LastF.i] = LastF.v
              /\ \A j \in DOMAIN x.d : j # LastF.i => x.d[j] = last.self.d[j]
        /\ LastF.name = "set" /\ LastF.i \notin DOMAIN last.self.d => x = last.self
        /\ LastF.name = "modify" /\ last.out.k = "ret" =>
              x.d = ModifyTo(last.self.d)
        /\ LastF.name \in {"noop", "boom"} => x = last.self

\* vec![0, 1].pipe_as_mut(|s: &mut [i32]| s[0] = 2) left the vector [2, 1]
C6_Witness ==
    /\ LastOp = "pipe_as_mut"
    /\ last.self = Vec(<<0, 1>>)
    /\ LastF = [name |-> "set", p |-> "slice", i |-> 1, v |-> 2]
    /\ x = Vec(<<2, 1>>)

----------------------------------------------------------------------------
(* C7 *)

\* C7: a call panics if and only if its conversion or f panicked, and then
\* the panic that reaches the caller is that very panic, payload unchanged;
\* a call whose f returned hands back what f returned, an Err value
\* included, as it is.
C7_NoFailureOfItsOwn ==
    Called =>
        LET n == Len(last.log)
        IN  /\ n >= 1
            /\ last.out.k = "panic" <=>
                  \E i \in 1 .. n : last.log[i].out.k = "panic"
            /\ \A i \in 1 .. n - 1 : last.log[i].out.k = "ret"
            /\ last.out = last.log[n].out
            /\ last.log[n].ev = "f" /\ LastF.name = "fail" =>
                  /\ last.out.k = "ret"
                  /\ acc = [ty |-> "Err", d |-> ArgVal(last.log[n].arg, Fresh(last.self)).d]

\* x.pipe_borrow_mut(f) with an f that panics: the caller sees f's panic
C7_Witness ==
    /\ LastOp = "pipe_borrow_mut"
    /\ LastF.name = "boom"
    /\ last.out = [k |-> "panic", payload |-> "f panicked"]
    /\ acc = NoValue

----------------------------------------------------------------------------
(* C8 *)

\* C8 as stated, the part about pipe: after x.pipe(f) the caller no longer
\* holds the value.
C8_CallerNeverHoldsAfterPipe == LastOp = "pipe" => x = Moved

\* C8, amended: pipe hands f the value itself, and afterwards the caller no
\* longer holds it unless its type is Copy, in which case the caller's
\* binding is as it was; the borrowing variants hand f a view of the
\* caller's own value; and the outcome of a call and the state it leaves x
\* in are those of the same call written directly on the value x had,
\* whatever calls came before.
C8_PassThrough ==
    Called =>
        LET fs == Fs(last.log)
        IN  /\ LastOp = "pipe" =>
                  /\ \A i \in 1 .. Len(fs) : fs[i].arg = last.self
                  /\ x = Moved <=> ~IsCopy(last.self)
                  /\ IsCopy(last.self) => x = last.self
            /\ LastOp # "pipe" =>
                  /\ x # Moved
                  /\ \A i \in 1 .. Len(fs) :
                        /\ IsRef(fs[i].arg)
                        /\ fs[i].arg.place = "x"
                        /\ fs[i].arg.mut = (LastOp \in ByMutOps)
            /\ last.out = ManualLast.out
            /\ x = ManualLast.m.x

\* a vector that was edited before is moved into f by pipe
C8_Witness ==
    /\ LastOp = "pipe"
    /\ last.self.ty = "Vec"
    /\ last.self # base
    /\ nmut > 0
    /\ LastF.name = "id"
    /\ acc = last.self
    /\ x = Moved

----------------------------------------------------------------------------
(* C9 *)

\* C9: a conversion variant converts exactly once, with the conversion it
\* is named after, before f is invoked, and f is handed the result of that
\* conversion; pipe, pipe_ref and pipe_mut convert nothing.
C9_ConvertOnceThenCall ==
    Called =>
        LET n == Len(last.log)
        IN  /\ LastOp \in ConvOps =>
                  /\ Len(Convs(last.log)) = 1
                  /\ last.log[1].ev = "conv"
                  /\ last.log[1].how = ConvOf(LastOp)
                  /\ n <= 2
                  /\ n = 2 =>
                        /\ last.log[2].ev = "f"
                        /\ last.log[1].out.k = "ret"
                        /\ last.log[2].arg = last.log[1].out.v
                  /\ last.self.ty = "Vec" /\ LastF.p = "slice" /\ n = 2 =>
                        last.log[2].arg.part = "slice"
            /\ LastOp \notin ConvOps => Convs(last.log) = <<>>

\* a vector's pipe_deref_mut: one deref_mut, then f on the slice it gave
C9_Witness ==
    /\ LastOp = "pipe_deref_mut"
    /\ last.self.ty = "Vec"
    /\ Len(last.log) = 2
    /\ last.log[1].ev = "conv"
    /\ last.log[2].ev = "f"
    /\ last.log[2].arg = Ref("slice", TRUE)

----------------------------------------------------------------------------
(* C10 *)

\* C10: when the f given to pipe_mut returns the view it was handed, the
\* result of x.pipe_mut(f) is a mutable view of the caller's x itself, and
\* what it shows is x with every edit f made: the value an equal starting
\* value has after the same edits made directly.
C10_ReturnedViewIsTheValue ==
    LastOp = "pipe_mut" /\ LastF.name = "modify" =>
        /\ last.out.k = "ret"
        /\ acc = Ref("whole", TRUE)
        /\ acc.place = "x"
        /\ Read(acc, Machine) = expected
        /\ Read(acc, Machine) = [last.self EXCEPT !.d = ModifyTo(@)]

\* Foo(0, 0).pipe_mut(modify) returned a view that shows Foo(1, 2)
C10_Witness ==
    /\ LastOp = "pipe_mut"
    /\ LastF.name = "modify"
    /\ last.self = Foo(0, 0)
    /\ IsRef(acc)
    /\ Read(acc, Machine) = Foo(1, 2)

====
